---- MODULE Spec2Model ----
(***************************************************************************)
(* process-stats-exporter: the metrics handler (metrics.py), the stat      *)
(* collectors (main.py) and their update cycle over a changing process     *)
(* table.                                                                  *)
(***************************************************************************)
EXTENDS Integers, Sequences, FiniteSets, TLC

VARIABLES
    pids,             \* ProcessMetricsHandler._pids
    cmdline_regexps,  \* ProcessMetricsHandler._cmdline_regexps
    labels,           \* ProcessMetricsHandler._labels (static extra labels)
    metric_configs,   \* what get_metric_configs() returned (<<>> before the call)
    procs,            \* the process table the stat collaborator reads
    samples,          \* metric name -> (LabelSet -> value): the registered metric objects
    warnings,         \* the warnings the last update_metrics call logged, in order
    trace,            \* the _update_metric calls of the last update_metrics call, in order
    resolved,         \* the (labeler, process) pairs the resolver yielded in the last call
    raised,           \* 0, or the position of the pair whose collect raised in the last call
    lastUpdate,       \* metric name -> (LabelSet -> the last non-absent update applied)
    collected,        \* what the collectors' collect returned when called on its own
    cycles,           \* number of update_metrics calls so far
    events            \* number of process-table events so far

vars == <<pids, cmdline_regexps, labels, metric_configs, procs, samples, warnings,
          trace, resolved, raised, lastUpdate, collected, cycles, events>>

(***************************************************************************)
(* Bounds of the model.                                                    *)
(***************************************************************************)
MaxCycles == 2
MaxEvents == 1
MaxCollectTasks == 4

\* Python's None where a number is expected: an absent value, a missing sample
None == -1
\* a task whose state cannot be read
NoState == "None"

(***************************************************************************)
(* The inputs: process ids, comm values, patterns, task states.            *)
(***************************************************************************)
Pids == {10, 20, 30}
Comms == {"exec1", "exec2"}
Files == {"stat", "sched", "status"}
TaskStates == {"R", "S", "D", "Z", NoState}
\* the states a task is in when it appears in the table
SpawnStates == {"S", "Z"}

\* A pattern is known by the comm values it matches.
Matches(regexp, comm) ==
    CASE regexp = "exec.*" -> comm \in {"exec1", "exec2"}
      [] regexp = ".*1" -> comm = "exec1"
      [] OTHER -> FALSE

(***************************************************************************)
(* The descriptor tables.                                                  *)
(***************************************************************************)
ProcessStats ==
    << [metric |-> "process_time_user", type |-> "counter", stat |-> "stat.utime"],
       [metric |-> "process_time_system", type |-> "counter", stat |-> "stat.stime"],
       [metric |-> "process_mem_rss", type |-> "gauge", stat |-> "stat.rss"],
       [metric |-> "process_maj_fault", type |-> "counter", stat |-> "stat.majflt"],
       [metric |-> "process_min_fault", type |-> "counter", stat |-> "stat.minflt"],
       [metric |-> "process_ctx_involuntary", type |-> "counter",
        stat |-> "sched.nr_involuntary_switches"],
       [metric |-> "process_ctx_voluntary", type |-> "counter",
        stat |-> "sched.nr_voluntary_switches"],
       [metric |-> "process_mem_rss_max", type |-> "counter", stat |-> "status.VmHWM"] >>

ProcessTasksStats ==
    << [metric |-> "process_tasks_count", type |-> "gauge"],
       [metric |-> "process_tasks_state_running", type |-> "gauge"],
       [metric |-> "process_tasks_state_sleeping", type |-> "gauge"],
       [metric |-> "process_tasks_state_uninterruptible_sleep", type |-> "gauge"] >>

Range(s) == {s[i] : i \in DOMAIN s}

(***************************************************************************)
(* The stat collaborator: a process's fact store.                          *)
(***************************************************************************)
\* The file of /proc/<pid> a field path is read from.
FileOf(path) ==
    CASE path \in {"stat.utime", "stat.stime", "stat.rss", "stat.majflt", "stat.minflt"}
           -> "stat"
      [] path \in {"sched.nr_involuntary_switches", "sched.nr_voluntary_switches"}
           -> "sched"
      [] OTHER -> "status"

\* The position of a field in its file: the files of a process hold
\* kv, kv + 1, kv + 2, ... as in the tests' stat files.
FieldIndex(path) ==
    CASE path = "stat.minflt" -> 9
      [] path = "stat.majflt" -> 11
      [] path = "stat.utime" -> 13
      [] path = "stat.stime" -> 14
      [] path = "stat.rss" -> 23
      [] path = "sched.nr_involuntary_switches" -> 2
      [] path = "sched.nr_voluntary_switches" -> 1
      [] OTHER -> 3

\* process.get(path): the value, or None when the file is not readable.
Get(process, path) ==
    IF FileOf(path) \in process.readable THEN process.kv + FieldIndex(path) ELSE None

(***************************************************************************)
(* The labelers.                                                           *)
(***************************************************************************)
Digits == <<"0", "1", "2", "3", "4", "5", "6", "7", "8", "9">>

RECURSIVE Str(_)
Str(n) == IF n < 10 THEN Digits[n + 1] ELSE Str(n \div 10) \o Digits[(n % 10) + 1]

PidLabeler == [kind |-> "pid", regexp |-> ""]
CmdlineLabeler(regexp) == [kind |-> "cmd", regexp |-> regexp]

\* labeler.labels()
LabelerLabels(labeler) == IF labeler.kind = "pid" THEN {"pid"} ELSE {"cmd"}

\* labeler(process)
LabelerApply(labeler, pid, process) ==
    IF labeler.kind = "pid" THEN [k \in {"pid"} |-> Str(pid)]
    ELSE [k \in {"cmd"} |-> process.comm]

(***************************************************************************)
(* ProcessMetricsHandler: construction and get_metric_configs.             *)
(***************************************************************************)
PatternLabelNames(regexps) ==
    UNION {LabelerLabels(CmdlineLabeler(regexps[i])) : i \in DOMAIN regexps}

\* _get_label_names without its `if self._pids` branch
GetLabelNamesNoPid(hpids, regexps, extra) ==
    DOMAIN extra \cup PatternLabelNames(regexps)

\* _get_label_names
GetLabelNames(hpids, regexps, extra) ==
    (DOMAIN extra \cup PatternLabelNames(regexps))
        \cup (IF hpids # <<>> THEN LabelerLabels(PidLabeler) ELSE {})

\* collector.metrics() of a collector constructed with labels=label_names
CollectorMetrics(stats, label_names) ==
    [i \in DOMAIN stats |->
        [name |-> stats[i].metric, type |-> stats[i].type, labels |-> label_names]]

\* get_metric_configs
GetMetricConfigs(hpids, regexps, extra) ==
    CollectorMetrics(ProcessStats, GetLabelNames(hpids, regexps, extra))
        \o CollectorMetrics(ProcessTasksStats, GetLabelNames(hpids, regexps, extra))

(***************************************************************************)
(* The stat collectors.                                                    *)
(***************************************************************************)
\* collect keyed by stat.stat instead of stat.metric
ProcessStatsCollectByStat(process) ==
    [name \in {ProcessStats[i].stat : i \in DOMAIN ProcessStats} |-> Get(process, name)]

\* ProcessStatsCollector.collect, once collect_stats() has returned
ProcessStatsCollect(process) ==
    [name \in {ProcessStats[i].metric : i \in DOMAIN ProcessStats} |->
        Get(process, (CHOOSE s \in Range(ProcessStats) : s.metric = name).stat)]

\* state_counts[state] after the loop over the tasks
StateCount(tasks, state) == Cardinality({i \in DOMAIN tasks : tasks[i] = state})

\* collect whose total counts the tasks in state R, S or D only
ProcessTasksCollectNamedOnly(process) ==
    [name \in {"process_tasks_count", "process_tasks_state_running",
               "process_tasks_state_sleeping",
               "process_tasks_state_uninterruptible_sleep"} |->
        CASE name = "process_tasks_count" ->
                 StateCount(process.tasks, "R") + StateCount(process.tasks, "S")
                     + StateCount(process.tasks, "D")
          [] name = "process_tasks_state_running" -> StateCount(process.tasks, "R")
          [] name = "process_tasks_state_sleeping" -> StateCount(process.tasks, "S")
          [] OTHER -> StateCount(process.tasks, "D")]

\* ProcessTasksStatsCollector.collect, once every task's collect_stats() has returned
ProcessTasksCollect(process) ==
    [name \in {"process_tasks_count", "process_tasks_state_running",
               "process_tasks_state_sleeping",
               "process_tasks_state_uninterruptible_sleep"} |->
        CASE name = "process_tasks_count" -> Len(process.tasks)
          [] name = "process_tasks_state_running" -> StateCount(process.tasks, "R")
          [] name = "process_tasks_state_sleeping" -> StateCount(process.tasks, "S")
          [] OTHER -> StateCount(process.tasks, "D")]

\* collect_stats() and tasks() fail on a process that is gone when it is read
CollectRaises(process) == ~process.alive

\* metric_values after the loop over self._collectors
MetricValues(process) == ProcessTasksCollect(process) @@ ProcessStatsCollect(process)

(***************************************************************************)
(* The resolver.                                                           *)
(***************************************************************************)
PidOrder == <<10, 20, 30>>

\* the processes of the table a pattern matches, in table order
MatchingPids(regexp, table) ==
    SelectSeq(PidOrder, LAMBDA p : table[p].alive /\ Matches(regexp, table[p].comm))

RECURSIVE PatternPairs(_, _, _)
PatternPairs(regexps, i, table) ==
    IF i > Len(regexps) THEN <<>>
    ELSE LET ps == MatchingPids(regexps[i], table)
         IN [k \in DOMAIN ps |-> [labeler |-> CmdlineLabeler(regexps[i]), pid |-> ps[k],
                                  process |-> table[ps[k]]]]
                \o PatternPairs(regexps, i + 1, table)

\* get_process_iterator(pids=..., cmdline_regexps=...)
GetProcessIterator(hpids, regexps, table) ==
    IF hpids # <<>>
    THEN LET ps == SelectSeq(hpids, LAMBDA p : table[p].alive)
         IN [k \in DOMAIN ps |-> [labeler |-> PidLabeler, pid |-> ps[k],
                                  process |-> table[ps[k]]]]
    ELSE PatternPairs(regexps, 1, table)

(***************************************************************************)
(* The metric objects.                                                     *)
(***************************************************************************)
MetricNames(configs) == {configs[i].name : i \in DOMAIN configs}

\* create_metrics: one metric object per descriptor, no labeled child yet
CreateMetrics(configs) == [name \in MetricNames(configs) |-> <<>>]

\* the value of a labeled child, None when the metric has no such child
Lookup(smp, name, lbls) ==
    IF lbls \in DOMAIN smp[name] THEN smp[name][lbls] ELSE None

\* metric.labels(**labels) fails when the names are not the declared ones
LabelsRaise(config, lbls) == DOMAIN lbls # config.labels

\* an update that drops the metric's other labeled children
ApplyForget(smp, config, lbls, value) ==
    LET child == IF lbls \in DOMAIN smp[config.name] THEN smp[config.name][lbls] ELSE 0
        new == IF config.type = "counter" THEN child + value
               ELSE IF config.type = "gauge" THEN value
               ELSE child
    IN [smp EXCEPT ![config.name] = (lbls :> new)]

\* an update with the counter and gauge branches exchanged
ApplySwapped(smp, config, lbls, value) ==
    LET child == IF lbls \in DOMAIN smp[config.name] THEN smp[config.name][lbls] ELSE 0
        new == IF config.type = "gauge" THEN child + value
               ELSE IF config.type = "counter" THEN value
               ELSE child
    IN [smp EXCEPT ![config.name] = (lbls :> new) @@ @]

\* metric.labels(**labels), then inc(value) on a counter, set(value) on a gauge
Apply(smp, config, lbls, value) ==
    LET child == IF lbls \in DOMAIN smp[config.name] THEN smp[config.name][lbls] ELSE 0
        new == IF config.type = "counter" THEN child + value
               ELSE IF config.type = "gauge" THEN value
               ELSE child
    IN [smp EXCEPT ![config.name] = (lbls :> new) @@ @]

(***************************************************************************)
(* ProcessMetricsHandler.update_metrics.                                   *)
(* A cycle's state st: the metric objects, the log, the calls made so far, *)
(* and whether an exception has left the call.                             *)
(***************************************************************************)
\* labels = self._labels.copy(); labels.update(labeler(process))
EffectiveLabels(labeler, pid, process) == LabelerApply(labeler, pid, process) @@ labels

\* the process whose value a labeled sample last took (0: none yet)
Owner(st, name, lbls) ==
    IF lbls \in DOMAIN st.last[name] THEN st.last[name][lbls].pid ELSE 0

\* one _update_metric call as seen from outside: its arguments, and the
\* labeled sample before and after it
Call(st, smp, k, labeler, pid, process, config, value) ==
    [metric |-> config.name, pair |-> k, pid |-> pid, value |-> value,
     labels |-> EffectiveLabels(labeler, pid, process),
     owner |-> Owner(st, config.name, EffectiveLabels(labeler, pid, process)),
     pre |-> Lookup(st.samples, config.name, EffectiveLabels(labeler, pid, process)),
     post |-> Lookup(smp, config.name, EffectiveLabels(labeler, pid, process))]

\* _update_metric, called for the k-th pair
UpdateMetric(st, k, labeler, pid, process, config, value) ==
    IF value = None
    THEN [st EXCEPT !.warnings = Append(@, [metric |-> config.name, pid |-> pid]),
                    !.trace = Append(@, Call(st, st.samples, k, labeler, pid, process,
                                             config, value))]
    ELSE LET lbls == EffectiveLabels(labeler, pid, process)
         IN IF LabelsRaise(config, lbls)
            THEN [st EXCEPT !.error = TRUE]
            ELSE LET smp == Apply(st.samples, config, lbls, value)
                 IN [st EXCEPT !.samples = smp,
                               !.trace = Append(@, Call(st, smp, k, labeler, pid, process,
                                                        config, value)),
                               !.last = [@ EXCEPT ![config.name] =
                                            (lbls :> [value |-> value, pid |-> pid]) @@ @]]

\* for name, metric in metrics.items(): self._update_metric(..., metric_values[name])
RECURSIVE UpdateMetricsOf(_, _, _, _, _, _)
UpdateMetricsOf(st, k, pair, configs, values, i) ==
    IF i > Len(configs) \/ st.error THEN st
    ELSE IF configs[i].name \notin DOMAIN values
    THEN [st EXCEPT !.error = TRUE]
    ELSE UpdateMetricsOf(
             UpdateMetric(st, k, pair.labeler, pair.pid, pair.process, configs[i],
                          values[configs[i].name]),
             k, pair, configs, values, i + 1)

\* for labeler, process in process_iter: ...
\* gone is the position of the pair whose process has exited when it is read (0: none)
RECURSIVE UpdatePairs(_, _, _, _, _)
UpdatePairs(st, pairs, k, gone, configs) ==
    IF k > Len(pairs) \/ st.raised # 0 THEN st
    ELSE LET process == IF k = gone THEN [pairs[k].process EXCEPT !.alive = FALSE]
                        ELSE pairs[k].process
         IN IF CollectRaises(process)
            THEN [st EXCEPT !.raised = k]
            ELSE LET done == UpdateMetricsOf(st, k, pairs[k], configs,
                                             MetricValues(process), 1)
                 IN UpdatePairs(IF done.error THEN [done EXCEPT !.raised = k] ELSE done,
                                pairs, k + 1, gone, configs)

CycleStart == [samples |-> samples, warnings |-> <<>>, trace |-> <<>>, last |-> lastUpdate,
               error |-> FALSE, raised |-> 0]

(***************************************************************************)
(* The state after construction and create_metrics.                        *)
(***************************************************************************)
NoLabels == <<>>

Handlers ==
    { [pids |-> <<10, 20, 30>>, regexps |-> <<>>, labels |-> NoLabels],
      [pids |-> <<10, 20, 30>>, regexps |-> <<>>,
       labels |-> [k \in {"cmd", "env"} |-> "static"]],
      [pids |-> <<>>, regexps |-> <<"exec.*">>, labels |-> NoLabels],
      [pids |-> <<>>, regexps |-> <<"exec.*", ".*1">>,
       labels |-> [k \in {"cmd", "env"} |-> "static"]] }

NewProcess(comm) ==
    [alive |-> TRUE, comm |-> comm, kv |-> 0, readable |-> Files, tasks |-> <<"R">>]

NoProcess ==
    [alive |-> FALSE, comm |-> "", kv |-> 0, readable |-> {}, tasks |-> <<>>]

NotCalled == <<>>

Idle ==
    /\ warnings = <<>>
    /\ trace = <<>>
    /\ resolved = <<>>
    /\ raised = 0
    /\ collected = NotCalled
    /\ cycles = 0
    /\ events = 0

Init ==
    /\ \E h \in Handlers :
          /\ pids = h.pids
          /\ cmdline_regexps = h.regexps
          /\ labels = h.labels
    /\ metric_configs = GetMetricConfigs(pids, cmdline_regexps, labels)
    /\ samples = CreateMetrics(metric_configs)
    /\ lastUpdate = CreateMetrics(metric_configs)
    /\ procs = [p \in Pids |-> IF p = 30 THEN NoProcess
                               ELSE NewProcess(IF p = 10 THEN "exec1" ELSE "exec2")]
    /\ Idle

(***************************************************************************)
(* The scrape callback: one update_metrics call.                           *)
(***************************************************************************)
UpdateMetrics ==
    /\ cycles < MaxCycles
    /\ \E gone \in 0..Len(GetProcessIterator(pids, cmdline_regexps, procs)) :
       \E pairs \in {GetProcessIterator(pids, cmdline_regexps, procs)} :
       \E st \in {UpdatePairs(CycleStart, pairs, 1, gone, metric_configs)} :
          /\ samples' = st.samples
          /\ warnings' = st.warnings
          /\ trace' = st.trace
          /\ lastUpdate' = st.last
          /\ raised' = st.raised
          /\ resolved' = pairs
          /\ procs' = IF gone = 0 THEN procs
                      ELSE [procs EXCEPT ![pairs[gone].pid] = NoProcess]
    /\ cycles' = cycles + 1
    /\ UNCHANGED <<pids, cmdline_regexps, labels, metric_configs, collected, events>>

(***************************************************************************)
(* The process table changes between the calls.                            *)
(***************************************************************************)
Event ==
    /\ events < MaxEvents
    /\ events' = events + 1
    /\ UNCHANGED <<pids, cmdline_regexps, labels, metric_configs, samples, warnings,
                   trace, resolved, raised, lastUpdate, collected, cycles>>

Spawn(p, comm) ==
    /\ ~procs[p].alive
    /\ procs' = [procs EXCEPT ![p] = NewProcess(comm)]
    /\ Event

Exit(p) ==
    /\ procs[p].alive
    /\ procs' = [procs EXCEPT ![p] = NoProcess]
    /\ Event

\* p exits and its command is started again, as process q
Restart(p, q) ==
    /\ procs[p].alive
    /\ ~procs[q].alive
    /\ procs' = [procs EXCEPT ![p] = NoProcess, ![q] = NewProcess(procs[p].comm)]
    /\ Event

KernelTick(p) ==
    /\ procs[p].alive
    /\ procs' = [procs EXCEPT ![p].kv = @ + 1]
    /\ Event

FileUnreadable(p, f) ==
    /\ procs[p].alive
    /\ f \in procs[p].readable
    /\ procs' = [procs EXCEPT ![p].readable = @ \ {f}]
    /\ Event

TaskSpawn(p, state) ==
    /\ procs[p].alive
    /\ procs' = [procs EXCEPT ![p].tasks = Append(@, state)]
    /\ Event

TaskExit(p) ==
    /\ procs[p].alive
    /\ procs[p].tasks # <<>>
    /\ procs' = [procs EXCEPT ![p].tasks = Tail(@)]
    /\ Event

Next ==
    \/ UpdateMetrics
    \/ \E p \in Pids, comm \in Comms : Spawn(p, comm)
    \/ \E p \in Pids : Exit(p)
    \/ \E p \in Pids, q \in Pids : Restart(p, q)
    \/ \E p \in Pids : KernelTick(p)
    \/ \E p \in Pids, f \in Files : FileUnreadable(p, f)
    \/ \E p \in Pids, state \in SpawnStates : TaskSpawn(p, state)
    \/ \E p \in Pids : TaskExit(p)

Spec == Init /\ [][Next]_vars

(***************************************************************************)
(* Construction alone: any constructor arguments, then get_metric_configs  *)
(* and create_metrics.                                                     *)
(***************************************************************************)
InitConfig ==
    /\ pids \in {<<>>, <<10>>, <<10, 20, 30>>}
    /\ cmdline_regexps \in {<<>>, <<"exec.*">>, <<"exec.*", ".*1">>}
    /\ \E names \in SUBSET {"cmd", "pid", "env"} : labels = [k \in names |-> "static"]
    /\ metric_configs = NotCalled
    /\ samples = <<>>
    /\ lastUpdate = <<>>
    /\ procs = [p \in Pids |-> NoProcess]
    /\ Idle

Configure ==
    /\ metric_configs = NotCalled
    /\ metric_configs' = GetMetricConfigs(pids, cmdline_regexps, labels)
    /\ samples' = CreateMetrics(metric_configs')
    /\ lastUpdate' = CreateMetrics(metric_configs')
    /\ UNCHANGED <<pids, cmdline_regexps, labels, procs, warnings, trace, resolved,
                   raised, collected, cycles, events>>

NextConfig == Configure

SpecConfig == InitConfig /\ [][NextConfig]_vars

(***************************************************************************)
(* The collectors alone: collect on one process, whatever its files and    *)
(* tasks are.                                                              *)
(***************************************************************************)
RECURSIVE SeqsUpTo(_, _)
SeqsUpTo(S, n) ==
    IF n = 0 THEN {<<>>}
    ELSE SeqsUpTo(S, n - 1)
            \cup {Append(t, x) : t \in {u \in SeqsUpTo(S, n - 1) : Len(u) = n - 1}, x \in S}

InitCollect ==
    /\ pids = <<>>
    /\ cmdline_regexps = <<"exec.*">>
    /\ labels = NoLabels
    /\ metric_configs = GetMetricConfigs(pids, cmdline_regexps, labels)
    /\ samples = CreateMetrics(metric_configs)
    /\ lastUpdate = CreateMetrics(metric_configs)
    /\ \E process \in
            {NoProcess}
              \cup {[NewProcess("exec1") EXCEPT !.tasks = t] :
                       t \in SeqsUpTo(TaskStates, MaxCollectTasks)}
              \cup {[NewProcess("exec1") EXCEPT !.readable = r, !.kv = v] :
                       r \in SUBSET Files, v \in 0..1} :
          procs = [p \in Pids |-> IF p = 10 THEN process ELSE NoProcess]
    /\ Idle

Collect(p) ==
    /\ collected = NotCalled
    /\ collected' =
           IF CollectRaises(procs[p])
           THEN [pid |-> p, raised |-> TRUE, process |-> <<>>, tasks |-> <<>>,
                 values |-> <<>>]
           ELSE [pid |-> p, raised |-> FALSE,
                 process |-> ProcessStatsCollect(procs[p]),
                 tasks |-> ProcessTasksCollect(procs[p]),
                 values |-> MetricValues(procs[p])]
    /\ UNCHANGED <<pids, cmdline_regexps, labels, metric_configs, procs, samples,
                   warnings, trace, resolved, raised, lastUpdate, cycles, events>>

NextCollect == \E p \in {10} : Collect(p)

SpecCollect == InitCollect /\ [][NextCollect]_vars

(***************************************************************************)
(* The properties.                                                         *)
(***************************************************************************)
ConfigOf(name) == CHOOSE c \in Range(metric_configs) : c.name = name

Called == metric_configs # NotCalled

\* the LabelSet a pair is reported under, as the specification states it
PairLabelSet(pair) ==
    IF pair.labeler.kind = "pid"
    THEN [k \in DOMAIN labels \cup {"pid"} |->
            IF k = "pid"
            THEN CASE pair.pid = 10 -> "10" [] pair.pid = 20 -> "20" [] OTHER -> "30"
            ELSE labels[k]]
    ELSE [k \in DOMAIN labels \cup {"cmd"} |->
            IF k = "cmd" THEN pair.process.comm ELSE labels[k]]

RECURSIVE CountIn(_, _)
CountIn(seq, x) ==
    IF seq = <<>> THEN 0 ELSE (IF Head(seq) = x THEN 1 ELSE 0) + CountIn(Tail(seq), x)

ResolvedPids == {resolved[k].pid : k \in DOMAIN resolved}

NonAbsentCalls == {j \in DOMAIN trace : trace[j].value # None}

C2_OwnValuePerProcess ==
    cycles = 1 =>
        \A k \in DOMAIN resolved : \A c \in Range(metric_configs) :
            MetricValues(resolved[k].process)[c.name] # None =>
                Lookup(samples, c.name, PairLabelSet(resolved[k]))
                    = MetricValues(resolved[k].process)[c.name]

\* C3: an absent value leaves the labeled sample as it was, logs exactly one
\* warning for that metric and process in the cycle, and the cycle goes on
\* over the remaining metrics and the remaining processes.
C3_AbsentValueSkipped ==
    \A j \in DOMAIN trace :
        trace[j].value = None =>
            /\ trace[j].post = trace[j].pre
            /\ Cardinality({w \in DOMAIN warnings :
                                /\ warnings[w].metric = trace[j].metric
                                /\ warnings[w].pid = trace[j].pid}) = 1
            /\ raised = 0
            /\ \A k \in DOMAIN resolved : \A c \in Range(metric_configs) :
                   \E t \in DOMAIN trace : trace[t].pair = k /\ trace[t].metric = c.name

\* C4: a non-absent update adds its value to a counter's labeled sample and
\* overwrites a gauge's; a gauge sample is the last non-absent value updated
\* under its LabelSet; each of the twelve metrics is a counter or a gauge.
C4_IncrementOrSet ==
    /\ \A j \in NonAbsentCalls :
          LET r == trace[j]
              was == IF r.pre = None THEN 0 ELSE r.pre
          IN /\ ConfigOf(r.metric).type = "counter" => r.post = was + r.value
             /\ ConfigOf(r.metric).type = "gauge" => r.post = r.value
    /\ \A c \in Range(metric_configs) :
          /\ c.type \in {"counter", "gauge"}
          /\ c.type = "gauge" =>
                \A lbls \in DOMAIN samples[c.name] :
                    /\ lbls \in DOMAIN lastUpdate[c.name]
                    /\ samples[c.name][lbls] = lastUpdate[c.name][lbls].value
    /\ Len(metric_configs) = 12

C4_Witness ==
    /\ \E j \in NonAbsentCalls :
          /\ ConfigOf(trace[j].metric).type = "gauge"
          /\ trace[j].pre # None
          /\ trace[j].pre > trace[j].value
    /\ \E j \in NonAbsentCalls :
          /\ ConfigOf(trace[j].metric).type = "counter"
          /\ trace[j].pre # None
          /\ trace[j].pre > 0
          /\ trace[j].value > 0

\* C5: when the process that last fed a counter's labeled sample is gone and
\* a new process is resolved under the same LabelSet, the counter sample
\* after the cycle is the new process's kernel counter value.
C5_CounterRestartsFromNewProcess ==
    \A j \in NonAbsentCalls :
        LET r == trace[j]
        IN (/\ ConfigOf(r.metric).type = "counter"
            /\ r.owner # 0
            /\ r.owner # r.pid
            /\ r.owner \notin ResolvedPids
            /\ \A t \in NonAbsentCalls :
                  trace[t].metric = r.metric /\ trace[t].labels = r.labels => t = j)
           => r.post = r.value

\* C6: a process that has exited when it is read makes no collect raise, and
\* every other pair of the same call has all its non-absent metrics updated.
C6_ExitedProcessTolerated ==
    /\ raised = 0
    /\ \A k \in DOMAIN resolved \ {raised} : \A c \in Range(metric_configs) :
          MetricValues(resolved[k].process)[c.name] # None =>
              \E t \in NonAbsentCalls :
                  /\ trace[t].pair = k
                  /\ trace[t].metric = c.name
                  /\ trace[t].value = MetricValues(resolved[k].process)[c.name]

\* C7: the per-task collector returns the number of tasks and the numbers of
\* tasks in state R, S and D; a task in another state, or whose state cannot
\* be read, counts in the total only, so the three add up to at most the
\* total, and to the total exactly when every state is R, S or D.
C7_TaskStateCounts ==
    (collected # NotCalled /\ ~collected.raised) =>
        LET tasks == procs[collected.pid].tasks
            total == collected.tasks["process_tasks_count"]
            running == collected.tasks["process_tasks_state_running"]
            sleeping == collected.tasks["process_tasks_state_sleeping"]
            uninterruptible == collected.tasks["process_tasks_state_uninterruptible_sleep"]
        IN /\ total = Len(tasks)
           /\ running = CountIn(tasks, "R")
           /\ sleeping = CountIn(tasks, "S")
           /\ uninterruptible = CountIn(tasks, "D")
           /\ running + sleeping + uninterruptible <= total
           /\ (running + sleeping + uninterruptible = total)
                  <=> \A i \in DOMAIN tasks : tasks[i] \in {"R", "S", "D"}

C7_Witness ==
    /\ collected # NotCalled
    /\ ~collected.raised
    /\ procs[collected.pid].tasks = <<"R", "S", "S", "D">>
    /\ collected.tasks["process_tasks_count"] = 4
    /\ collected.tasks["process_tasks_state_running"] = 1
    /\ collected.tasks["process_tasks_state_sleeping"] = 2
    /\ collected.tasks["process_tasks_state_uninterruptible_sleep"] = 1

\* C8: in a call whose resolver yields no pair twice, no (metric, LabelSet)
\* is updated twice.
C8_UpdatedAtMostOnce ==
    (\A a, b \in DOMAIN resolved :
        resolved[a].labeler = resolved[b].labeler /\ resolved[a].pid = resolved[b].pid
            => a = b)
    => \A a, b \in NonAbsentCalls :
          trace[a].metric = trace[b].metric /\ trace[a].labels = trace[b].labels => a = b

\* C9: for each collector the metric names of metrics() are the keys of what
\* collect returns, so every requested metric name is a key of metric_values.
C9_NamesAreKeys ==
    (collected # NotCalled /\ ~collected.raised) =>
        /\ DOMAIN collected.process
               = MetricNames(CollectorMetrics(ProcessStats, {"cmd"}))
        /\ DOMAIN collected.tasks
               = MetricNames(CollectorMetrics(ProcessTasksStats, {"cmd"}))
        /\ \A i \in DOMAIN metric_configs : metric_configs[i].name \in DOMAIN collected.values

C9_Witness ==
    /\ collected # NotCalled
    /\ ~collected.raised
    /\ \E name \in DOMAIN collected.values : collected.values[name] = None
    /\ \E name \in DOMAIN collected.values : collected.values[name] # None

\* C10 as stated: a cycle deletes no series, and the series last fed by a
\* process that is no longer resolved keeps its value.
C10_DisappearedSeriesFrozen ==
    [][\A name \in DOMAIN samples : \A lbls \in DOMAIN samples[name] :
          /\ lbls \in DOMAIN samples'[name]
          /\ (/\ cycles' = cycles + 1
              /\ lbls \in DOMAIN lastUpdate[name]
              /\ lastUpdate[name][lbls].pid \notin {resolved'[k].pid : k \in DOMAIN resolved'})
             => samples'[name][lbls] = samples[name][lbls]]_vars

\* C10 as amended: a cycle deletes no series and lowers no counter sample,
\* and a series whose LabelSet is the LabelSet of no pair resolved in a cycle
\* keeps its value in that cycle (a process resolved under the LabelSet of a
\* process that disappeared goes on feeding that series).
C10_SeriesOnlyGrow ==
    [][\A name \in DOMAIN samples : \A lbls \in DOMAIN samples[name] :
          /\ lbls \in DOMAIN samples'[name]
          /\ ConfigOf(name).type = "counter" => samples'[name][lbls] >= samples[name][lbls]
          /\ (\A k \in DOMAIN resolved' : PairLabelSet(resolved'[k]) # lbls)
             => samples'[name][lbls] = samples[name][lbls]]_vars

C10_Witness ==
    /\ cycles = 2
    /\ raised = 0
    /\ resolved # <<>>
    /\ \E name \in DOMAIN samples : \E lbls \in DOMAIN samples[name] :
          /\ \A k \in DOMAIN resolved : PairLabelSet(resolved[k]) # lbls
          /\ lastUpdate[name][lbls].pid \notin ResolvedPids

====
